---- MODULE Spec2Model ----
(***************************************************************************)
(* Model of src/main.rs: the construction of App (App::new), App::resize   *)
(* and the event dispatch closure run by main.                             *)
(***************************************************************************)
EXTENDS Integers, Sequences, FiniteSets, TLC

\* ------------------------------------------------------------------ bounds
\* Widths and heights 0..MaxDim are enumerated next to the sizes of the
\* end-to-end scenario.
MaxDim == 1
\* Longest list of formats the surface capabilities report.
MaxFormats == 2

\* ------------------------------------------------------------------ values
\* Absent values are records, like the values they stand in for.
None == [none |-> TRUE]
NoApp == [app |-> FALSE]
NoWindow == [window |-> FALSE]
NoEvent == [type |-> "NoEvent"]

PhysicalSize(w, h) == [width |-> w, height |-> h]

PhysicalSizes ==
    {PhysicalSize(w, h) : w \in 0..MaxDim, h \in 0..MaxDim}
        \cup {PhysicalSize(800, 600), PhysicalSize(1024, 768), PhysicalSize(0, 300)}

\* The id of the window main builds, and a second id no window of the program has.
TrackedId == "window"
WindowIds == {TrackedId, "other"}

TextureFormats ==
    {[name |-> "Bgra8Unorm", srgb |-> FALSE], [name |-> "Bgra8UnormSrgb", srgb |-> TRUE],
     [name |-> "Rgba8Unorm", srgb |-> FALSE], [name |-> "Rgba8UnormSrgb", srgb |-> TRUE]}

is_srgb(f) == f.srgb

SeqsUpTo(S, n) == UNION {[1..k -> S] : k \in 0..n}

\* What Surface::get_capabilities may report.
SurfaceCapabilities ==
    [formats : SeqsUpTo(TextureFormats, MaxFormats),
     present_modes : {<<>>, <<"Fifo">>, <<"Mailbox", "Fifo">>},
     alpha_modes : {<<>>, <<"Opaque">>}]

\* ------------------------------------------------------------------ events
CloseRequested == [kind |-> "CloseRequested"]
Resized(s) == [kind |-> "Resized", size |-> s]
ScaleFactorChanged(s) == [kind |-> "ScaleFactorChanged", suggested |-> s]
Focused == [kind |-> "Focused"]

WindowEvents ==
    {CloseRequested, Focused}
        \cup {Resized(s) : s \in PhysicalSizes}
        \cup {ScaleFactorChanged(s) : s \in PhysicalSizes}

WindowEvent(id, ev) == [type |-> "WindowEvent", window_id |-> id, event |-> ev]
AboutToWait == [type |-> "AboutToWait"]
LoopExiting == [type |-> "LoopExiting"]

\* The events the platform delivers to the closure before the loop shuts down.
Events ==
    {WindowEvent(id, ev) : id \in WindowIds, ev \in WindowEvents} \cup {AboutToWait}

\* ------------------------------------------------------------------- state
VARIABLES
    pc,         \* position of main / App::new
    window,     \* the window main built: [id, inner_size], or NoWindow
    created,    \* GPU resources created so far
    attempts,   \* how often each fallible step has been executed
    locals,     \* the locals of App::new
    app,        \* the App value: [size, surface_config, surface_format], or NoApp
    surface,    \* the surface: the configuration last applied to it, or None
    event,      \* the event the closure handled last, or NoEvent
    effects,    \* the calls the closure made while handling that event
    writer,     \* the size held by the inner_size_writer of that event, or None
    scenario,   \* how many events of Scenario have been handled, in order
    status      \* how the process ended, or StillRunning

vars == <<pc, window, created, attempts, locals, app, surface, event, effects,
          writer, scenario, status>>

StillRunning == [exit |-> "none"]
Success == [exit |-> "success"]
Panicked(step) == [exit |-> "panic", at |-> step]

FallibleSteps == {"event_loop", "window", "surface", "adapter", "device"}

NoLocals ==
    [size |-> None, surface_caps |-> None, surface_format |-> None, surface_config |-> None]

Init ==
    /\ pc = "main"
    /\ window = NoWindow
    /\ created = {}
    /\ attempts = [s \in FallibleSteps |-> 0]
    /\ locals = NoLocals
    /\ app = NoApp
    /\ surface = None
    /\ event = NoEvent
    /\ effects = <<>>
    /\ writer = None
    /\ scenario = 0
    /\ status = StillRunning

\* --------------------------------------------------------------- panicking
\* A failed unwrap() or an index out of range panics: the process ends there.
Panic(step) ==
    /\ pc' = "Aborted"
    /\ status' = Panicked(step)

Attempt(step) == attempts' = [attempts EXCEPT ![step] = @ + 1]

\* -------------------------------------------------------------------- main
\* EventLoop::new().unwrap()
CreateEventLoop ==
    /\ pc = "main"
    /\ Attempt("event_loop")
    /\ \E ok \in BOOLEAN :
           IF ok THEN pc' = "build_window" /\ status' = status
                 ELSE Panic("event_loop")
    /\ UNCHANGED <<window, created, locals, app, surface, event, effects, writer, scenario>>

\* WindowBuilder::new()...build(&event_loop).unwrap(); window.id()
BuildWindow ==
    /\ pc = "build_window"
    /\ Attempt("window")
    /\ \E ok \in BOOLEAN, s \in PhysicalSizes :
           IF ok THEN /\ window' = [id |-> TrackedId, inner_size |-> s]
                      /\ pc' = "new_size"
                      /\ status' = status
                 ELSE /\ window' = window
                      /\ Panic("window")
    /\ UNCHANGED <<created, locals, app, surface, event, effects, writer, scenario>>

\* ---------------------------------------------------------------- App::new
\* let size = window.inner_size();
NewSize ==
    /\ pc = "new_size"
    /\ locals' = [locals EXCEPT !.size = window.inner_size]
    /\ pc' = "new_instance"
    /\ UNCHANGED <<window, created, attempts, app, surface, event, effects, writer,
                   scenario, status>>

\* Instance::new(..) cannot fail.
NewInstance ==
    /\ pc = "new_instance"
    /\ created' = created \cup {"instance"}
    /\ pc' = "new_surface"
    /\ UNCHANGED <<window, attempts, locals, app, surface, event, effects, writer,
                   scenario, status>>

\* A step that reports its failure and goes on to the next step.
Acquire_continues(at, step, resource, next) ==
    /\ pc = at
    /\ Attempt(step)
    /\ \E ok \in BOOLEAN :
           IF ok THEN /\ created' = created \cup {resource}
                      /\ pc' = next
                      /\ status' = status
                 ELSE /\ created' = created
                      /\ pc' = next
                      /\ status' = Panicked(step)
    /\ UNCHANGED <<window, locals, app, surface, event, effects, writer, scenario>>

\* A step of App::new that ends in unwrap(): it yields its resource, or panics.
Acquire(at, step, resource, next) ==
    /\ pc = at
    /\ Attempt(step)
    /\ \E ok \in BOOLEAN :
           IF ok THEN /\ created' = created \cup {resource}
                      /\ pc' = next
                      /\ status' = status
                 ELSE /\ created' = created
                      /\ Panic(step)
    /\ UNCHANGED <<window, locals, app, surface, event, effects, writer, scenario>>

\* SurfaceTargetUnsafe::from_window(&window).unwrap(), create_surface_unsafe(..).unwrap()
NewSurface == Acquire("new_surface", "surface", "surface", "new_adapter")

\* instance.request_adapter(..).await.unwrap()
NewAdapter == Acquire("new_adapter", "adapter", "adapter", "new_device")

\* adapter.request_device(..).await.unwrap()
NewDevice == Acquire("new_device", "device", "device", "new_caps")

\* surface.get_capabilities(&adapter)
NewCapabilities ==
    /\ pc = "new_caps"
    /\ \E caps \in SurfaceCapabilities : locals' = [locals EXCEPT !.surface_caps = caps]
    /\ pc' = "new_format"
    /\ UNCHANGED <<window, created, attempts, app, surface, event, effects, writer,
                   scenario, status>>

\* The selection with the last sRGB format for the first.
select_format_last_srgb(formats) ==
    LET srgb == SelectSeq(formats, is_srgb)
    IN  IF srgb # <<>> THEN srgb[Len(srgb)] ELSE formats[1]

\* formats.iter().copied().filter(|f| f.is_srgb()).next().unwrap_or(formats[0]),
\* for a list with a first element
select_format(formats) ==
    LET srgb == SelectSeq(formats, is_srgb)
    IN  IF srgb # <<>> THEN Head(srgb) ELSE formats[1]

\* A selection that falls back to a fixed format when no format is reported.
NewSelectFormat_defaults ==
    /\ pc = "new_format"
    /\ locals' = [locals EXCEPT
                     !.surface_format =
                         IF locals.surface_caps.formats # <<>>
                            THEN select_format(locals.surface_caps.formats)
                            ELSE [name |-> "Bgra8UnormSrgb", srgb |-> TRUE]]
    /\ pc' = "new_config"
    /\ status' = status
    /\ UNCHANGED <<window, created, attempts, app, surface, event, effects, writer, scenario>>

\* The argument of unwrap_or is evaluated first: formats[0] panics on an empty list.
NewSelectFormat ==
    /\ pc = "new_format"
    /\ IF locals.surface_caps.formats # <<>>
          THEN /\ locals' = [locals EXCEPT
                                !.surface_format = select_format(locals.surface_caps.formats)]
               /\ pc' = "new_config"
               /\ status' = status
          ELSE /\ locals' = locals
               /\ Panic("surface_format")
    /\ UNCHANGED <<window, created, attempts, app, surface, event, effects, writer, scenario>>

MaximumFrameLatency == 2

\* The initial configuration with width and height exchanged.
initial_config_swapped(size, format, caps) ==
    [usage |-> "RENDER_ATTACHMENT",
     format |-> format,
     width |-> size.height,
     height |-> size.width,
     present_mode |-> caps.present_modes[1],
     alpha_mode |-> caps.alpha_modes[1],
     view_formats |-> <<>>,
     desired_maximum_frame_latency |-> MaximumFrameLatency]

\* The initial configuration with the last reported present mode for the first.
initial_config_last_present_mode(size, format, caps) ==
    [usage |-> "RENDER_ATTACHMENT",
     format |-> format,
     width |-> size.width,
     height |-> size.height,
     present_mode |-> caps.present_modes[Len(caps.present_modes)],
     alpha_mode |-> caps.alpha_modes[1],
     view_formats |-> <<>>,
     desired_maximum_frame_latency |-> MaximumFrameLatency]

initial_config(size, format, caps) ==
    [usage |-> "RENDER_ATTACHMENT",
     format |-> format,
     width |-> size.width,
     height |-> size.height,
     present_mode |-> caps.present_modes[1],
     alpha_mode |-> caps.alpha_modes[1],
     view_formats |-> <<>>,
     desired_maximum_frame_latency |-> MaximumFrameLatency]

\* present_modes[0] and alpha_modes[0] panic on an empty list.
NewBuildConfig ==
    /\ pc = "new_config"
    /\ IF locals.surface_caps.present_modes # <<>> /\ locals.surface_caps.alpha_modes # <<>>
          THEN /\ locals' = [locals EXCEPT
                                !.surface_config =
                                    initial_config(locals.size, locals.surface_format,
                                                   locals.surface_caps)]
               /\ pc' = "new_return"
               /\ status' = status
          ELSE /\ locals' = locals
               /\ Panic("surface_config")
    /\ UNCHANGED <<window, created, attempts, app, surface, event, effects, writer, scenario>>

\* App { instance, surface, surface_config, surface_format, .., window, size }:
\* the locals move into the App or are dropped. The surface is handed over as
\* it is; new() makes no call on it.
NewReturn ==
    /\ pc = "new_return"
    /\ app' = [size |-> locals.size,
               surface_config |-> locals.surface_config,
               surface_format |-> locals.surface_format]
    /\ locals' = NoLocals
    /\ pc' = "run"
    /\ UNCHANGED <<window, created, attempts, surface, event, effects, writer,
                   scenario, status>>

\* event_loop.set_control_flow(ControlFlow::Wait); event_loop.run(..)
RunLoop ==
    /\ pc = "run"
    /\ pc' = "Running"
    /\ UNCHANGED <<window, created, attempts, locals, app, surface, event, effects, writer,
                   scenario, status>>

\* ------------------------------------------------------------- App::resize
\* The calls a handler makes, in the order it makes them.
println_resized(new_size) ==
    [call |-> "println", text |-> "Application Resized to", size |-> new_size]
println_close == [call |-> "println", text |-> "Close Requested"]
configure(config) == [call |-> "configure", config |-> config]
request_inner_size(size) == [call |-> "request_inner_size", size |-> size]
exit == [call |-> "exit"]

\* resize with the width copied into the configuration's height.
resize_copies_width(self, surf, new_size) ==
    IF new_size.width > 0 /\ new_size.height > 0
        THEN LET config == [self.surface_config EXCEPT !.width = new_size.width,
                                                       !.height = new_size.width]
             IN  [app |-> [self EXCEPT !.size = new_size, !.surface_config = config],
                  surface |-> config,
                  effects |-> <<println_resized(new_size), configure(config)>>]
        ELSE [app |-> self,
              surface |-> surf,
              effects |-> <<println_resized(new_size)>>]

\* resize with || for && in its guard.
resize_either_positive(self, surf, new_size) ==
    IF new_size.width > 0 \/ new_size.height > 0
        THEN LET config == [self.surface_config EXCEPT !.width = new_size.width,
                                                       !.height = new_size.height]
             IN  [app |-> [self EXCEPT !.size = new_size, !.surface_config = config],
                  surface |-> config,
                  effects |-> <<println_resized(new_size), configure(config)>>]
        ELSE [app |-> self,
              surface |-> surf,
              effects |-> <<println_resized(new_size)>>]

\* resize with self.size = new_size moved before the guard.
resize_tracks_any_size(self, surf, new_size) ==
    IF new_size.width > 0 /\ new_size.height > 0
        THEN LET config == [self.surface_config EXCEPT !.width = new_size.width,
                                                       !.height = new_size.height]
             IN  [app |-> [self EXCEPT !.size = new_size, !.surface_config = config],
                  surface |-> config,
                  effects |-> <<println_resized(new_size), configure(config)>>]
        ELSE [app |-> [self EXCEPT !.size = new_size],
              surface |-> surf,
              effects |-> <<println_resized(new_size)>>]

\* resize with the configure call moved before the updates of surface_config.
resize_configures_first(self, surf, new_size) ==
    IF new_size.width > 0 /\ new_size.height > 0
        THEN LET config == [self.surface_config EXCEPT !.width = new_size.width,
                                                       !.height = new_size.height]
             IN  [app |-> [self EXCEPT !.size = new_size, !.surface_config = config],
                  surface |-> self.surface_config,
                  effects |-> <<println_resized(new_size), configure(self.surface_config)>>]
        ELSE [app |-> self,
              surface |-> surf,
              effects |-> <<println_resized(new_size)>>]

\* resize with the println moved inside the guard.
resize_prints_when_valid(self, surf, new_size) ==
    IF new_size.width > 0 /\ new_size.height > 0
        THEN LET config == [self.surface_config EXCEPT !.width = new_size.width,
                                                       !.height = new_size.height]
             IN  [app |-> [self EXCEPT !.size = new_size, !.surface_config = config],
                  surface |-> config,
                  effects |-> <<println_resized(new_size), configure(config)>>]
        ELSE [app |-> self,
              surface |-> surf,
              effects |-> <<>>]

\* resize(&mut self, new_size), on the App value self and the surface it owns:
\* the App and the surface afterwards, and the calls made.
resize(self, surf, new_size) ==
    IF new_size.width > 0 /\ new_size.height > 0
        THEN LET config == [self.surface_config EXCEPT !.width = new_size.width,
                                                       !.height = new_size.height]
             IN  [app |-> [self EXCEPT !.size = new_size, !.surface_config = config],
                  surface |-> config,
                  effects |-> <<println_resized(new_size), configure(config)>>]
        ELSE [app |-> self,
              surface |-> surf,
              effects |-> <<println_resized(new_size)>>]

\* ------------------------------------------------------- the event closure
\* The closure without target.exit() in its CloseRequested arm.
closure_close_only_logs(window_id, self, surf, e) ==
    LET untouched ==
            [app |-> self, surface |-> surf, effects |-> <<>>, exit |-> FALSE,
             writer |-> IF e.type = "WindowEvent" /\ e.event.kind = "ScaleFactorChanged"
                           THEN e.event.suggested ELSE None]
    IN  IF e.type = "WindowEvent" /\ e.window_id = window_id
            THEN CASE e.event.kind = "CloseRequested" ->
                          [untouched EXCEPT !.effects = <<println_close>>]
                   [] e.event.kind = "Resized" ->
                          LET r == resize(self, surf, e.event.size)
                          IN  [untouched EXCEPT !.app = r.app,
                                                !.surface = r.surface,
                                                !.effects = r.effects]
                   [] e.event.kind = "ScaleFactorChanged" ->
                          LET r == resize(self, surf, self.size)
                          IN  [untouched EXCEPT !.app = r.app,
                                                !.surface = r.surface,
                                                !.effects = <<request_inner_size(self.size)>>
                                                                \o r.effects,
                                                !.writer = self.size]
                   [] OTHER -> untouched
            ELSE untouched

\* The closure with a ScaleFactorChanged arm that takes the suggested size.
closure_takes_suggestion(window_id, self, surf, e) ==
    LET untouched ==
            [app |-> self, surface |-> surf, effects |-> <<>>, exit |-> FALSE,
             writer |-> IF e.type = "WindowEvent" /\ e.event.kind = "ScaleFactorChanged"
                           THEN e.event.suggested ELSE None]
    IN  IF e.type = "WindowEvent" /\ e.window_id = window_id
            THEN CASE e.event.kind = "CloseRequested" ->
                          [untouched EXCEPT !.effects = <<println_close, exit>>,
                                            !.exit = TRUE]
                   [] e.event.kind = "Resized" ->
                          LET r == resize(self, surf, e.event.size)
                          IN  [untouched EXCEPT !.app = r.app,
                                                !.surface = r.surface,
                                                !.effects = r.effects]
                   [] e.event.kind = "ScaleFactorChanged" ->
                          LET r == resize(self, surf, e.event.suggested)
                          IN  [untouched EXCEPT !.app = r.app,
                                                !.surface = r.surface,
                                                !.effects = r.effects]
                   [] OTHER -> untouched
            ELSE untouched

\* The closure without the comparison of the event's window id.
closure_any_window(window_id, self, surf, e) ==
    LET untouched ==
            [app |-> self, surface |-> surf, effects |-> <<>>, exit |-> FALSE,
             writer |-> IF e.type = "WindowEvent" /\ e.event.kind = "ScaleFactorChanged"
                           THEN e.event.suggested ELSE None]
    IN  IF e.type = "WindowEvent"
            THEN CASE e.event.kind = "CloseRequested" ->
                          [untouched EXCEPT !.effects = <<println_close, exit>>,
                                            !.exit = TRUE]
                   [] e.event.kind = "Resized" ->
                          LET r == resize(self, surf, e.event.size)
                          IN  [untouched EXCEPT !.app = r.app,
                                                !.surface = r.surface,
                                                !.effects = r.effects]
                   [] e.event.kind = "ScaleFactorChanged" ->
                          LET r == resize(self, surf, self.size)
                          IN  [untouched EXCEPT !.app = r.app,
                                                !.surface = r.surface,
                                                !.effects = <<request_inner_size(self.size)>>
                                                                \o r.effects,
                                                !.writer = self.size]
                   [] OTHER -> untouched
            ELSE untouched

\* The closure with a ScaleFactorChanged arm that calls resize before it
\* writes the size back.
closure_scale_resizes_first(window_id, self, surf, e) ==
    LET untouched ==
            [app |-> self, surface |-> surf, effects |-> <<>>, exit |-> FALSE,
             writer |-> IF e.type = "WindowEvent" /\ e.event.kind = "ScaleFactorChanged"
                           THEN e.event.suggested ELSE None]
    IN  IF e.type = "WindowEvent" /\ e.window_id = window_id
            THEN CASE e.event.kind = "CloseRequested" ->
                          [untouched EXCEPT !.effects = <<println_close, exit>>,
                                            !.exit = TRUE]
                   [] e.event.kind = "Resized" ->
                          LET r == resize(self, surf, e.event.size)
                          IN  [untouched EXCEPT !.app = r.app,
                                                !.surface = r.surface,
                                                !.effects = r.effects]
                   [] e.event.kind = "ScaleFactorChanged" ->
                          LET r == resize(self, surf, self.size)
                          IN  [untouched EXCEPT !.app = r.app,
                                                !.surface = r.surface,
                                                !.effects = r.effects \o
                                                    <<request_inner_size(r.app.size)>>,
                                                !.writer = r.app.size]
                   [] OTHER -> untouched
            ELSE untouched

\* The closure main passes to run, called with event e: the App and the surface
\* afterwards, the calls made, the size left in the event's inner_size_writer
\* and whether target.exit() was called.
closure(window_id, self, surf, e) ==
    LET untouched ==
            [app |-> self, surface |-> surf, effects |-> <<>>, exit |-> FALSE,
             writer |-> IF e.type = "WindowEvent" /\ e.event.kind = "ScaleFactorChanged"
                           THEN e.event.suggested ELSE None]
    IN  IF e.type = "WindowEvent" /\ e.window_id = window_id
            THEN CASE e.event.kind = "CloseRequested" ->
                          [untouched EXCEPT !.effects = <<println_close, exit>>,
                                            !.exit = TRUE]
                   [] e.event.kind = "Resized" ->
                          LET r == resize(self, surf, e.event.size)
                          IN  [untouched EXCEPT !.app = r.app,
                                                !.surface = r.surface,
                                                !.effects = r.effects]
                   [] e.event.kind = "ScaleFactorChanged" ->
                          LET r == resize(self, surf, self.size)
                          IN  [untouched EXCEPT !.app = r.app,
                                                !.surface = r.surface,
                                                !.effects = <<request_inner_size(self.size)>>
                                                                \o r.effects,
                                                !.writer = self.size]
                   [] OTHER -> untouched
            ELSE untouched

\* The end-to-end scenario of the specification, after a window of 800 x 600.
ScenarioWindow == PhysicalSize(800, 600)
Scenario ==
    <<WindowEvent(TrackedId, Resized(PhysicalSize(1024, 768))),
      WindowEvent(TrackedId, Resized(PhysicalSize(0, 300))),
      WindowEvent(TrackedId, CloseRequested)>>

\* The position in Scenario after event e: one further when e is its next
\* event, -1 once the events handled are no prefix of it.
follow(n, e) ==
    IF n = Len(Scenario) THEN n
    ELSE IF n >= 0 /\ e = Scenario[n + 1] THEN n + 1
    ELSE -1

\* A dispatch that sets the loop running again after every handler that did
\* not call target.exit().
Dispatch_resets_exit(e) ==
    /\ pc \in {"Running", "Exiting"}
    /\ LET r == closure(window.id, app, surface, e)
       IN  /\ app' = r.app
           /\ surface' = r.surface
           /\ effects' = r.effects
           /\ writer' = r.writer
           /\ pc' = IF r.exit THEN "Exiting" ELSE "Running"
    /\ event' = e
    /\ scenario' = follow(scenario, e)
    /\ UNCHANGED <<window, created, attempts, locals, status>>

\* One call of the closure by the running loop. The loop checks for exit only
\* between iterations, so events still arrive after target.exit().
Dispatch(e) ==
    /\ pc \in {"Running", "Exiting"}
    /\ LET r == closure(window.id, app, surface, e)
       IN  /\ app' = r.app
           /\ surface' = r.surface
           /\ effects' = r.effects
           /\ writer' = r.writer
           /\ pc' = IF r.exit THEN "Exiting" ELSE pc
    /\ event' = e
    /\ scenario' = follow(scenario, e)
    /\ UNCHANGED <<window, created, attempts, locals, status>>

\* The loop shuts down: the closure gets LoopExiting, run returns Ok(()) and
\* main returns.
LoopExit ==
    /\ pc = "Exiting"
    /\ LET r == closure(window.id, app, surface, LoopExiting)
       IN  /\ app' = r.app
           /\ surface' = r.surface
           /\ effects' = r.effects
           /\ writer' = r.writer
    /\ event' = LoopExiting
    /\ pc' = "Exited"
    /\ status' = Success
    /\ UNCHANGED <<window, created, attempts, locals, scenario>>

Next ==
    \/ CreateEventLoop
    \/ BuildWindow
    \/ NewSize
    \/ NewInstance
    \/ NewSurface
    \/ NewAdapter
    \/ NewDevice
    \/ NewCapabilities
    \/ NewSelectFormat
    \/ NewBuildConfig
    \/ NewReturn
    \/ RunLoop
    \/ \E e \in Events : Dispatch(e)
    \/ LoopExit

Spec == Init /\ [][Next]_vars

TypeOK ==
    /\ pc \in {"main", "build_window", "new_size", "new_instance", "new_surface",
               "new_adapter", "new_device", "new_caps", "new_format", "new_config",
               "new_return", "run", "Running", "Exiting", "Exited", "Aborted"}
    /\ created \subseteq {"instance", "surface", "adapter", "device"}
    /\ scenario \in -1..Len(Scenario)
    /\ (app # NoApp) => app.size \in PhysicalSizes

\* ================================================================== claims
Valid(s) == s.width > 0 /\ s.height > 0
TrackedResized(s) == WindowEvent(TrackedId, Resized(s))
TrackedScale(s) == WindowEvent(TrackedId, ScaleFactorChanged(s))
TrackedClose == WindowEvent(TrackedId, CloseRequested)
\* Dispatch(e) sets event to e: in a step, event' is the event being handled.
IsWindowEvent(e, kind) == e.type = "WindowEvent" /\ e.event.kind = kind
IsTrackedResized(e) == IsWindowEvent(e, "Resized") /\ e.window_id = TrackedId
IsTrackedScale(e) == IsWindowEvent(e, "ScaleFactorChanged") /\ e.window_id = TrackedId
IsClose(e) == IsWindowEvent(e, "CloseRequested")
Configures(calls) == \E i \in 1..Len(calls) : calls[i].call = "configure"

\* C1: after resize(w, h) with w > 0 and h > 0, called from any reachable
\* session state, the tracked size is (w, h) and the stored configuration has
\* width w and height h.
C1_ResizeSetsSizeAndConfig ==
    \A s \in PhysicalSizes :
        (event = TrackedResized(s) /\ Valid(s))
            => /\ app.size = s
               /\ app.surface_config.width = s.width
               /\ app.surface_config.height = s.height

C1_Witness ==
    /\ event = TrackedResized(PhysicalSize(1024, 768))
    /\ window.inner_size = PhysicalSize(0, 300)
    /\ app.size = PhysicalSize(1024, 768)
    /\ app.surface_config.width = 1024
    /\ app.surface_config.height = 768

\* C2: resize(w, h) with w = 0 or h = 0 leaves the tracked size, the whole
\* stored configuration and the surface as they were, and makes no configure
\* call.
C2_ZeroResizeIsNoOp ==
    [][(IsTrackedResized(event') /\ ~Valid(event'.event.size) /\ Dispatch(event'))
               => /\ app' = app
                  /\ surface' = surface
                  /\ ~Configures(effects')]_vars

C2_Witness ==
    /\ event = TrackedResized(PhysicalSize(0, 300))
    /\ app.size = PhysicalSize(1024, 768)
    /\ surface = app.surface_config
    /\ effects = <<println_resized(PhysicalSize(0, 300))>>

\* C3: once the App is constructed, the stored configuration's width and
\* height equal the tracked size's, whatever events were handled and whatever
\* the initial window size was.
C3_ConfigMirrorsSize ==
    app # NoApp
        => /\ app.surface_config.width = app.size.width
           /\ app.surface_config.height = app.size.height

C3_Witness ==
    /\ app # NoApp
    /\ window.inner_size.width = 0
    /\ app.size = window.inner_size
    /\ event \in {TrackedResized(s) : s \in {t \in PhysicalSizes : ~Valid(t)}}
    /\ app.surface_config.width = 0

\* C4: when construction has completed and no event has been handled yet, the
\* initial configuration (the window's size) has been applied to the surface.
C4_InitialConfigApplied ==
    (pc \in {"run", "Running"} /\ event = NoEvent)
        => /\ surface # None
           /\ surface = app.surface_config
           /\ surface.width = window.inner_size.width
           /\ surface.height = window.inner_size.height

\* C5: while the loop is Running, CloseRequested for the tracked window moves
\* it to Exiting, and CloseRequested for another window id leaves it Running.
C5_CloseOnlyForTrackedWindow ==
    [][(pc = "Running" /\ IsClose(event') /\ Dispatch(event'))
           => pc' = IF event'.window_id = TrackedId THEN "Exiting" ELSE "Running"]_vars

C5_Witness ==
    /\ pc = "Exiting"
    /\ event = TrackedClose
    /\ effects = <<println_close, exit>>

\* C6: handling ScaleFactorChanged for the tracked window leaves the tracked
\* size as it was, and the size requested back from the platform is that size,
\* whatever the platform suggested.
C6_ScaleFactorKeepsSize ==
    [][(IsTrackedScale(event') /\ Dispatch(event'))
               => /\ app'.size = app.size
                  /\ writer' = app.size
                  /\ effects'[1] = request_inner_size(app.size)]_vars

C6_Witness ==
    /\ \E s \in PhysicalSizes : event = TrackedScale(s) /\ s # app.size /\ Valid(s)
    /\ writer = app.size
    /\ app.size # window.inner_size

\* C7: resize(w, h) with a valid size, called again right after resize(w, h),
\* leaves the tracked size, the stored configuration and the configuration
\* applied to the surface as the first call left them.
C7_ResizeIdempotent ==
    [][(IsTrackedResized(event) /\ Valid(event.event.size)
            /\ event' = event /\ Dispatch(event'))
               => /\ app' = app
                  /\ surface' = surface]_vars

C7_Witness ==
    \E s \in PhysicalSizes :
        /\ Valid(s)
        /\ event = TrackedResized(s)
        /\ window.inner_size # s
        /\ resize(app, surface, s).app = app
        /\ resize(app, surface, s).surface = surface
        /\ surface.width = s.width

\* C8: from a window of 800 x 600 the constructed App has size and
\* configuration 800 x 600; after Resized(1024, 768) both are 1024 x 768;
\* after Resized(0, 300) the size is still 1024 x 768; after CloseRequested
\* the loop is exiting, and the process ends with success.
C8_EndToEnd ==
    (app # NoApp /\ window.inner_size = ScenarioWindow)
        => /\ (scenario = 0 /\ event = NoEvent)
                => /\ app.size = PhysicalSize(800, 600)
                   /\ app.surface_config.width = 800
                   /\ app.surface_config.height = 600
           /\ scenario = 1
                => /\ app.size = PhysicalSize(1024, 768)
                   /\ app.surface_config.width = 1024
                   /\ app.surface_config.height = 768
           /\ scenario = 2 => app.size = PhysicalSize(1024, 768)
           /\ scenario = 3 => pc \in {"Exiting", "Exited"}
           /\ (scenario = 3 /\ pc = "Exited") => status = Success

C8_Witness ==
    /\ pc = "Exited"
    /\ status = Success
    /\ scenario = Len(Scenario)
    /\ window.inner_size = ScenarioWindow
    /\ app.size = PhysicalSize(1024, 768)

\* The construction steps after a fallible step of App::new, and what they create.
StepsAfter(step) ==
    CASE step = "surface" -> {"adapter", "device"}
      [] step = "adapter" -> {"device"}
      [] step = "device" -> {}

\* C9: when surface creation, the adapter request or the device request has
\* failed, the process has aborted at that step: there is no App, no later
\* step has run, the loop is not running, no event has been handled and no
\* step was executed twice.
C9_FailedStepAborts ==
    (status.exit = "panic" /\ status.at \in {"surface", "adapter", "device"})
        => /\ pc = "Aborted"
           /\ app = NoApp
           /\ event = NoEvent
           /\ surface = None
           /\ locals.surface_caps = None
           /\ \A later \in StepsAfter(status.at) :
                  later \notin created /\ attempts[later] = 0
           /\ status.at \notin created
           /\ \A step \in FallibleSteps : attempts[step] <= 1

C9_Witness ==
    /\ pc = "Aborted"
    /\ status = Panicked("adapter")
    /\ created = {"instance", "surface"}
    /\ attempts["adapter"] = 1

\* The events the closure takes no action on.
Ignored(e) ==
    \/ e.type # "WindowEvent"
    \/ e.window_id # TrackedId
    \/ e.event.kind \notin {"CloseRequested", "Resized", "ScaleFactorChanged"}

\* C10: an event that is no window event, a window event of another window id,
\* and a window event of the tracked window other than CloseRequested, Resized
\* and ScaleFactorChanged leave the App, the surface and the loop state as
\* they were.
C10_OtherEventsIgnored ==
    [][(event' \in Events /\ Ignored(event') /\ Dispatch(event'))
               => /\ app' = app
                  /\ surface' = surface
                  /\ pc' = pc]_vars

C10_Witness ==
    /\ pc = "Running"
    /\ \E s \in PhysicalSizes :
           /\ Valid(s)
           /\ event = WindowEvent("other", Resized(s))
           /\ app.size # s
    /\ effects = <<>>

\* C11 as stated: handling ScaleFactorChanged for the tracked window in any
\* Running state first requests the current size from the platform and then
\* makes a configure call.
C11_ScaleFactorAlwaysConfigures ==
    [][(pc = "Running" /\ IsTrackedScale(event') /\ Dispatch(event'))
           => /\ effects'[1] = request_inner_size(app.size)
              /\ \E i \in 2..Len(effects') : effects'[i].call = "configure"]_vars

\* C11, amended: handling ScaleFactorChanged for the tracked window first
\* requests the current size from the platform and then calls resize with it;
\* the stored configuration is applied again when the tracked size has a
\* positive width and height, and no configure call is made when it has a
\* zero width or height.
C11_ScaleFactorRequestsThenResizes ==
    [][(pc = "Running" /\ IsTrackedScale(event') /\ Dispatch(event'))
           => IF Valid(app.size)
                 THEN /\ effects' = <<request_inner_size(app.size),
                                      println_resized(app.size),
                                      configure(app.surface_config)>>
                      /\ surface' = app.surface_config
                 ELSE /\ effects' = <<request_inner_size(app.size),
                                      println_resized(app.size)>>
                      /\ surface' = surface]_vars

C11_Witness ==
    /\ pc = "Running"
    /\ IsTrackedScale(event)
    /\ ~Valid(app.size)
    /\ effects = <<request_inner_size(app.size), println_resized(app.size)>>
    /\ surface = None

\* C12: no configuration with a zero width or a zero height is ever applied to
\* the surface, in construction or in a handler, whatever the initial window
\* size: the configuration last applied, and every configure call made, has
\* width > 0 and height > 0.
C12_NoZeroAreaConfigure ==
    /\ surface # None => (surface.width > 0 /\ surface.height > 0)
    /\ \A i \in 1..Len(effects) :
           effects[i].call = "configure"
               => (effects[i].config.width > 0 /\ effects[i].config.height > 0)

C12_Witness ==
    /\ surface # None
    /\ ~Valid(window.inner_size)
    /\ IsTrackedResized(event)
    /\ ~Valid(event.event.size)
    /\ Valid(app.size)
    /\ surface.width = app.size.width

\* C13: whenever the surface has been configured, the width and height last
\* applied to it are those of the stored configuration; right after a resize
\* with a valid size the configuration applied is the stored one.
C13_AppliedIsStored ==
    /\ surface # None
           => /\ app # NoApp
              /\ surface.width = app.surface_config.width
              /\ surface.height = app.surface_config.height
    /\ (IsTrackedResized(event) /\ Valid(event.event.size))
           => /\ surface = app.surface_config
              /\ effects[Len(effects)] = configure(app.surface_config)

C13_Witness ==
    /\ IsTrackedResized(event)
    /\ Valid(event.event.size)
    /\ Valid(window.inner_size)
    /\ window.inner_size # event.event.size
    /\ surface = app.surface_config
    /\ effects = <<println_resized(app.size), configure(app.surface_config)>>

\* C14 as stated: once CloseRequested for the tracked window has been handled,
\* the loop never returns to Running and no event handled afterwards changes
\* the tracked size, the stored configuration or the configuration applied.
C14_NothingChangesAfterClose ==
    [][(pc \in {"Exiting", "Exited"})
           => /\ pc' \in {"Exiting", "Exited"}
              /\ app' = app
              /\ surface' = surface]_vars

\* C14, amended: once CloseRequested for the tracked window has been handled,
\* the loop never returns to Running, and nothing changes once the loop has
\* exited; an event the closure receives before the loop has shut down is
\* handled as while Running, so only Resized with a valid size and
\* ScaleFactorChanged for the tracked window can still change the session.
C14_ExitingIsTerminal ==
    [][(pc \in {"Exiting", "Exited"})
           => /\ pc' \in {"Exiting", "Exited"}
              /\ pc = "Exited" => (app' = app /\ surface' = surface)
              /\ (app' # app \/ surface' # surface)
                     => \/ IsTrackedResized(event') /\ Valid(event'.event.size)
                        \/ IsTrackedScale(event')]_vars

C14_Witness ==
    /\ pc = "Exiting"
    /\ IsTrackedResized(event)
    /\ Valid(event.event.size)
    /\ app.size = event.event.size
    /\ app.size # window.inner_size
    /\ surface = app.surface_config

\* The formats reported and the format selected, once App::new has selected.
Selected == pc \in {"new_config", "new_return"}

\* C15: for every non-empty list of reported formats, the selected format is
\* the first one in list order that is sRGB if one is, and the first of the
\* list otherwise; it is always a member of the list.
C15_FirstSrgbElseFirst ==
    Selected
        => LET formats == locals.surface_caps.formats
               chosen == locals.surface_format
               srgb == {i \in 1..Len(formats) : formats[i].srgb}
           IN  /\ formats # <<>>
               /\ \E i \in 1..Len(formats) : formats[i] = chosen
               /\ srgb # {}
                      => \E i \in srgb : /\ formats[i] = chosen
                                         /\ \A j \in srgb : i <= j
               /\ srgb = {} => chosen = formats[1]

C15_Witness ==
    /\ Selected
    /\ Len(locals.surface_caps.formats) = MaxFormats
    /\ ~locals.surface_caps.formats[1].srgb
    /\ locals.surface_caps.formats[MaxFormats].srgb
    /\ locals.surface_format = locals.surface_caps.formats[MaxFormats]

\* The fields of the stored configuration other than width and height.
FixedFields(config) ==
    [usage |-> config.usage,
     format |-> config.format,
     present_mode |-> config.present_mode,
     alpha_mode |-> config.alpha_mode,
     view_formats |-> config.view_formats,
     desired_maximum_frame_latency |-> config.desired_maximum_frame_latency]

\* C16: the stored configuration of a constructed App has maximum frame
\* latency 2, usage render-attachment and no view formats; its format, present
\* mode and alpha mode are those chosen in construction (the selected format,
\* the first reported present mode and alpha mode); resize and the handlers
\* change nothing of it but width and height, and nothing of the App but the
\* size and the configuration.
C16_OnlySizeChanges ==
    [][app' # NoApp
           => /\ app'.surface_config.desired_maximum_frame_latency = 2
              /\ app'.surface_config.usage = "RENDER_ATTACHMENT"
              /\ app'.surface_config.view_formats = <<>>
              /\ app'.surface_config.format = app'.surface_format
              /\ IF app = NoApp
                    THEN /\ app'.surface_format = locals.surface_format
                         /\ app'.surface_config.present_mode
                                = locals.surface_caps.present_modes[1]
                         /\ app'.surface_config.alpha_mode
                                = locals.surface_caps.alpha_modes[1]
                    ELSE /\ FixedFields(app'.surface_config) = FixedFields(app.surface_config)
                         /\ app'.surface_format = app.surface_format]_vars

C16_Witness ==
    /\ IsTrackedResized(event)
    /\ Valid(event.event.size)
    /\ app.size = event.event.size
    /\ app.size # window.inner_size
    /\ app.surface_config.present_mode = "Mailbox"
    /\ app.surface_config.desired_maximum_frame_latency = 2
    /\ app.surface_config.format.srgb

\* C17 as stated: handling Resized with a zero width or height for the tracked
\* window emits no diagnostic output, raises no error, changes no session
\* state and leaves the loop Running.
C17_ZeroResizeSilent ==
    [][(pc = "Running" /\ IsTrackedResized(event') /\ ~Valid(event'.event.size)
            /\ Dispatch(event'))
           => /\ effects' = <<>>
              /\ status' = StillRunning
              /\ app' = app
              /\ surface' = surface
              /\ pc' = "Running"]_vars

\* C17, amended: handling Resized with a zero width or height for the tracked
\* window prints the line "Application Resized to <size>" and does nothing
\* else: it raises no error, changes no session state and leaves the loop
\* Running.
C17_ZeroResizeOnlyPrints ==
    [][(pc = "Running" /\ IsTrackedResized(event') /\ ~Valid(event'.event.size)
            /\ Dispatch(event'))
           => /\ effects' = <<println_resized(event'.event.size)>>
              /\ status' = StillRunning
              /\ app' = app
              /\ surface' = surface
              /\ pc' = "Running"]_vars

C17_Witness ==
    /\ pc = "Running"
    /\ event = TrackedResized(PhysicalSize(0, 0))
    /\ effects = <<println_resized(PhysicalSize(0, 0))>>
    /\ status = StillRunning
    /\ Valid(app.size)

\* The capabilities App::new holds report an empty list.
EmptyCapabilities ==
    /\ locals.surface_caps # None
    /\ \/ locals.surface_caps.formats = <<>>
       \/ locals.surface_caps.present_modes = <<>>
       \/ locals.surface_caps.alpha_modes = <<>>

\* C18: when the capabilities report an empty list of formats, present modes
\* or alpha modes, construction produces no App: it stops at the selection of
\* the format (no formats) or at the building of the configuration (no present
\* or alpha modes), with nothing applied to the surface and the loop not
\* started.
C18_EmptyCapabilitiesAbort ==
    EmptyCapabilities
        => /\ pc \in {"new_format", "new_config", "Aborted"}
           /\ pc = "new_config" => locals.surface_caps.formats # <<>>
           /\ pc = "Aborted"
                  => status = Panicked(IF locals.surface_caps.formats = <<>>
                                          THEN "surface_format" ELSE "surface_config")
           /\ app = NoApp
           /\ locals.surface_config = None
           /\ surface = None
           /\ event = NoEvent

C18_Witness ==
    /\ pc = "Aborted"
    /\ EmptyCapabilities
    /\ locals.surface_caps.formats # <<>>
    /\ locals.surface_caps.present_modes = <<>>
    /\ status = Panicked("surface_config")
    /\ locals.surface_format # None

====
